---- MODULE Spec2Model ----
(***************************************************************************)
(* Model of the pi-screenshots-picker extension (src/index.ts): the        *)
(* process-wide staged-image store, the /ss picker (tabs, cursor, scroll,  *)
(* nuke confirmation, per-session staged set), /ssclear and the input      *)
(* hook that attaches the staged images to the outgoing message.           *)
(*                                                                         *)
(* The host is single threaded: every handler runs to completion, and the  *)
(* picker is a modal custom component, so commands and message sends only  *)
(* happen while no picker is open.  Indices (activeTab, cursor,            *)
(* scrollOffset) are 0-based as in the source; sequences are 1-based, so   *)
(* element i of a JS array a is a[i + 1].                                  *)
(*                                                                         *)
(* Spec is the extension in use: /ss, the picker keys, /ssclear and sends. *)
(* SpecSources opens the picker under every combination of settings,       *)
(* SpecScan applies getScreenshotsFromDirectory to directories with any    *)
(* entry names, SpecSourceScan applies getScreenshotsFromSource to source  *)
(* strings with and without glob characters, SpecSsh is the /ss-ssh-sync   *)
(* command and its overlay, SpecScroll is the picker over a directory with *)
(* more screenshots than the list shows at once, and SpecTabs is the       *)
(* picker with up to three tabs.                                           *)
(***************************************************************************)
EXTENDS Integers, Sequences, FiniteSets, TLC

\* ---------------------------------------------------------------- bounds
NumFiles == 3        \* files of the modelled file system are 1..NumFiles
MaxStaged == 2       \* staging is not attempted once the store holds this many
ScrollFiles == 11    \* screenshots in the directory that fills more than one window
MaxDeleted == 2      \* unlinks that succeed in the scrolling specification

\* ------------------------------------------------------ program constants
VISIBLE_ITEMS == 10
MAX_THUMB_SIZE == 5 * 1024 * 1024

\* ------------------------------------------------------- the file system
Paths == 1..NumFiles

\* Modification time of a file (files 1 and 2 tie).
Mtime(p) == (p + 1) \div 2

\* Size of a file in bytes: file 1 is too large for a preview, every other
\* file is exactly at the limit.
FileSize(p) == IF p = 1 THEN MAX_THUMB_SIZE + 1 ELSE MAX_THUMB_SIZE


\* Locations a source string can name: 1 is a plain directory (the platform
\* default), 2 is a glob pattern, 3 is a directory without screenshots.
Locs == 1..3
DefaultLoc == 1
MissingLoc == 4      \* a directory that does not exist
ManyLoc == 5         \* a directory that holds the files ManyPaths

\* Locations whose written paths matter: "~/Desktop/ss", the pattern
\* "/out/**/thumbnail_*.png", a path that ends with one of the characters of
\* GlobChars each, and a directory with other punctuation in its name.
SsLoc == 6
ThumbLoc == 7
GlobChars == <<"*", "?", "[", "]", "{", "}", "!">>
CharLocs == 8..14
PunctLoc == 15
WrittenLocs == {SsLoc, ThumbLoc, PunctLoc} \cup CharLocs

\* The absolute path of a location as the sequence of the pieces it is
\* written with; every character that is not a letter, a digit or a slash
\* is a piece of its own.
LocText(l) ==
    CASE l = 1 -> <<"/home/u/Pictures/Screenshots">>
      [] l = 2 -> <<"/home/u/Pictures/", "*", "*", "/", "*", ".", "png">>
      [] l = 3 -> <<"/home/u/Screenshots">>
      [] l = MissingLoc -> <<"/mnt/gone">>
      [] l = ManyLoc -> <<"/many">>
      [] l = SsLoc -> <<"/home/u/Desktop/ss">>
      [] l = ThumbLoc -> <<"/out/", "*", "*", "/thumbnail", "_", "*", ".", "png">>
      [] l \in CharLocs -> <<"/shots/x", GlobChars[l - 7]>>
      [] l = PunctLoc -> <<"/shots/a", "-", "b", "_", "c", ".", "d", "#", "(", "1", ")", "+", "@">>
      [] OTHER -> <<>>

\* The files of ManyLoc, all named like screenshots.
ManyPaths == (NumFiles + 1)..(NumFiles + ScrollFiles)

\* A source string: a location, written either with a leading "~/" or as an
\* absolute path.
Src(t, l) == [tilde |-> t, loc |-> l]

\* A file name is the sequence of the pieces it is written with, so
\* <<"Screenshot", " ", "1", ".png">> is "Screenshot 1.png".
ShotName == <<"Screenshot", " ", "1", ".png">>
NotesName == <<"notes", ".jpg">>
Names ==
    { ShotName,
      <<"SCREENSHOT", "1", ".PNG">>,
      <<"Capture", " ", "1", ".png">>,
      <<"Capture", ".png">>,
      <<"2024-01-30", "_", "12", "-", "30", ".png">>,
      <<"2024-01-30", ".png">>,
      <<"grim", "1", ".png">>,
      <<"notes", ".png">>,
      <<"my", "Screenshot", ".png">>,
      <<"Screenshot", " ", "1", ".jpg">>,
      <<"Screenshot", " ", "1", ".png", ".txt">>,
      NotesName }

\* Names of files a glob can match: images of every kept extension, and
\* files that are not images.
MatchedNames ==
    { ShotName,
      <<"thumbnail", "_", "1", ".png">>,
      <<"notes", ".PNG">>,
      NotesName,
      <<"photo", ".jpeg">>,
      <<"photo", ".WEBP">>,
      <<"anim", ".gif">>,
      <<"thumbnail", "_", "1", ".png", ".txt">> }

\* The names the files have unless stated otherwise: file 3 is "notes.jpg",
\* every other file is named like a screenshot.
DefaultNames == [p \in Paths |-> IF p = 3 THEN NotesName ELSE ShotName]

\* String.toLowerCase on a piece of a name.
toLowerCase(piece) ==
    CASE piece = "Screenshot" -> "screenshot"
      [] piece = "SCREENSHOT" -> "screenshot"
      [] piece = "Capture" -> "capture"
      [] piece = ".PNG" -> ".png"
      [] piece = ".WEBP" -> ".webp"
      [] OTHER -> piece

\* name.toLowerCase().endsWith(ext)
endsWithLower(name, ext) == Len(name) > 0 /\ toLowerCase(name[Len(name)]) = ext

\* Directory entries under a location (location 1, a directory) or files the
\* pattern matches (location 2, a glob), whether or not they still exist:
\* file 2 is found by both, location 3 is an empty directory.  The
\* locations of WrittenLocs list what location 1 lists.
Listing(l) ==
    CASE l = 1 -> {p \in Paths : p <= 3}
      [] l = 2 -> {p \in Paths : p >= 2}
      [] l = ManyLoc -> ManyPaths
      [] l \in WrittenLocs -> {p \in Paths : p <= 3}
      [] OTHER -> {}

\* An unset string setting (undefined or "").
Unset == Src(FALSE, 0)

VARIABLES
    configSources,   \* config.sources (<<>> when absent or empty)
    envDir,          \* process.env.PI_SCREENSHOTS_DIR (Unset when absent)
    sshRemoteDir,    \* config.sshSync.remoteDir (Unset when absent)
    fileNames,       \* the name of every file
    sshCfg,          \* config.sshSync without remoteDir: localWatch, host, port
    inSSH,           \* SSH_CONNECTION or SSH_CLIENT is set
    scannedSources,  \* the sources getSourceTabs scanned last (<<>> before the first /ss)
    disk,            \* files that exist
    stagedImages,    \* the staged-image store
    widget,          \* "screenshots-staged" widget: 0 absent, else the N shown
    ui,              \* "closed" or "open" (a picker is on screen)
    tabs,            \* picker: the tabs, each a sequence of records
    activeTab, cursor, scrollOffset, nukeWarning,
    alreadyStaged,   \* picker: paths staged in this session, insertion order
    thumbnails,      \* picker: the thumbnail cache, path -> "img" or "null"
    reads,           \* history: preview reads of each path that has a record
    \* outputs of the last step
    result,          \* value the picker completed with: "none", "empty", "null"
    notes,           \* notifications emitted
    hookResult,      \* return value of the input hook
    event,           \* the input event the hook was called with
    \* history
    lastOp,          \* the operation of the last step
    snap,            \* store count and staged set before the last stage key
    sentClean,       \* a send attached images and nothing was staged since
    scanOut,         \* the last scan of a directory on its own: location and result
    createdDirs,     \* directories created by mkdirSync
    sync             \* the /ss-ssh-sync overlay, its timers and the clipboard

vars == <<configSources, envDir, sshRemoteDir, scannedSources, disk, stagedImages,
          widget, ui,
          tabs, activeTab, cursor, scrollOffset, nukeWarning, alreadyStaged,
          thumbnails, reads, result, notes, hookResult, event, lastOp, snap, sentClean,
          fileNames, scanOut, sshCfg, inSSH, createdDirs, sync>>

cfgVars == <<configSources, envDir, sshRemoteDir, fileNames, sshCfg, inSSH>>
scanVars == <<scanOut>>
syncVars == <<createdDirs, sync>>
pickerVars == <<tabs, activeTab, cursor, scrollOffset, nukeWarning, alreadyStaged,
                thumbnails, reads>>

\* ------------------------------------------------------------- sequences
Range(s) == {s[i] : i \in 1..Len(s)}

\* s without its element at 0-based index i (Array.splice(i, 1)); a no-op
\* when i is not an index of s.
Splice(s, i) ==
    IF i < 0 \/ i >= Len(s) THEN s
    ELSE [k \in 1..(Len(s) - 1) |-> IF k <= i THEN s[k] ELSE s[k + 1]]

\* 0-based index of the first occurrence of x in s, -1 if absent.
IndexOf(s, x) ==
    IF x \in Range(s) THEN (CHOOSE i \in 1..Len(s) : s[i] = x /\ \A j \in 1..(i - 1) : s[j] # x) - 1
    ELSE -1

Max(a, b) == IF a >= b THEN a ELSE b
Min(a, b) == IF a <= b THEN a ELSE b

\* ---------------------------------------------------------------- scanning
expandPath(s) == Src(FALSE, s.loc)

\* A test for * and ? alone.
isGlobPattern_StarAndQuestion(s) ==
    \E i \in 1..Len(LocText(s.loc)) : LocText(s.loc)[i] \in {"*", "?"}

\* /[*?[\]{}!]/.test(pattern)
isGlobPattern(s) ==
    \E i \in 1..Len(LocText(s.loc)) :
        LocText(s.loc)[i] \in {"*", "?", "[", "]", "{", "}", "!"}

FileName(p) == fileNames[p]

\* Extension of a file's name, lower case.
FileExt(p) ==
    LET name == FileName(p)
    IN CASE endsWithLower(name, ".png") -> "png"
         [] endsWithLower(name, ".jpg") -> "jpg"
         [] endsWithLower(name, ".jpeg") -> "jpeg"
         [] endsWithLower(name, ".webp") -> "webp"
         [] OTHER -> "other"

\* SCREENSHOT_PATTERNS: every pattern is anchored at the start of the name
\* and case-insensitive; it is written as the sequence of the sets of lower
\* case pieces it accepts at the start of a name.
WhiteSpace == {" "}
Digits4Date == {"2024-01-30"}
Digits2 == {"12", "30", "45"}
SCREENSHOT_PATTERNS ==
    << <<{"screenshot"}, WhiteSpace>>,
       <<{"capture"}, WhiteSpace>>,
       <<{"scherm"}>>,
       <<{"bildschirmfoto"}>>,
       <<{"captura"}, WhiteSpace>>,
       <<{"istantanea"}>>,
       <<{"screenshot"}>>,
       <<Digits4Date, {"_", "-"}, Digits2, {"_", "-"}, Digits2>>,
       <<{"flameshot"}>>,
       <<{"spectacle"}>>,
       <<{"scrot"}>>,
       <<{"maim"}>>,
       <<{"grim"}>> >>

\* pattern.test(name)
PatternTest(pattern, name) ==
    /\ Len(name) >= Len(pattern)
    /\ \A i \in 1..Len(pattern) : toLowerCase(name[i]) \in pattern[i]

isScreenshotName(name) ==
    \E i \in 1..Len(SCREENSHOT_PATTERNS) : PatternTest(SCREENSHOT_PATTERNS[i], name)

Record(p) == [path |-> p, mtime |-> Mtime(p)]

\* The elements of a set of files as a sequence, in directory order
\* (ascending).
RECURSIVE InOrder(_)
InOrder(S) ==
    IF S = {} THEN <<>>
    ELSE LET m == CHOOSE x \in S : \A y \in S : x <= y
         IN <<m>> \o InOrder(S \ {m})

\* existsSync(directory): every location but MissingLoc is there, and
\* MissingLoc once it has been created.
existsSync(s) == s.loc \in Locs \cup {ManyLoc} \cup WrittenLocs \cup createdDirs

\* A scan that compares the extension as it is written.
getScreenshotsFromDirectory_CaseSensitive(s, d) ==
    IF ~existsSync(s) THEN <<>>
    ELSE LET keep == {p \in Listing(s.loc) :
                        /\ FileName(p)[Len(FileName(p))] = ".png"
                        /\ isScreenshotName(FileName(p))
                        /\ p \in d}
         IN [i \in 1..Cardinality(keep) |-> Record(InOrder(keep)[i])]

\* statSync fails for an entry whose file does not exist (the file is gone,
\* or the entry is a dangling link): the entry is dropped.
getScreenshotsFromDirectory(s, d) ==
    IF ~existsSync(s) THEN <<>>
    ELSE LET keep == {p \in Listing(s.loc) :
                        /\ endsWithLower(FileName(p), ".png")
                        /\ isScreenshotName(FileName(p))
                        /\ p \in d}
         IN [i \in 1..Cardinality(keep) |-> Record(InOrder(keep)[i])]

getScreenshotsFromGlob(s, d) ==
    LET keep == {p \in Listing(expandPath(s).loc) :
                    /\ FileExt(p) \in {"png", "jpg", "jpeg", "webp"}
                    /\ p \in d}
    IN [i \in 1..Cardinality(keep) |-> Record(InOrder(keep)[i])]

getScreenshotsFromSource(s, d) ==
    LET expanded == expandPath(s)
    IN IF isGlobPattern(expanded) THEN getScreenshotsFromGlob(expanded, d)
       ELSE getScreenshotsFromDirectory(expanded, d)

\* Array.sort with comparator b.mtime - a.mtime: stable, descending.
RECURSIVE InsertByMtime(_, _)
InsertByMtime(sorted, r) ==
    IF sorted = <<>> THEN <<r>>
    ELSE IF Head(sorted).mtime >= r.mtime
         THEN <<Head(sorted)>> \o InsertByMtime(Tail(sorted), r)
         ELSE <<r>> \o sorted

RECURSIVE SortByMtime(_)
SortByMtime(recs) ==
    IF recs = <<>> THEN <<>>
    ELSE InsertByMtime(SortByMtime(SubSeq(recs, 1, Len(recs) - 1)), recs[Len(recs)])

getDefaultScreenshotDir == Src(FALSE, DefaultLoc)

\* A resolution in which PI_SCREENSHOTS_DIR beats config.sources.
ResolvedSources_EnvFirst(cs, env, ssh) ==
    LET base == IF env # Unset THEN <<env>>
                ELSE IF Len(cs) > 0 THEN cs ELSE <<getDefaultScreenshotDir>>
    IN IF ssh # Unset
          /\ expandPath(ssh) \notin Range(base)
          /\ ssh \notin Range(base)
       THEN Append(base, ssh)
       ELSE base

\* The sources scanned and the tab built for each of them.
ResolvedSources(cs, env, ssh) ==
    LET base == IF Len(cs) > 0 THEN cs
                ELSE <<IF env # Unset THEN env ELSE getDefaultScreenshotDir>>
    IN IF ssh # Unset
          /\ expandPath(ssh) \notin Range(base)
          /\ ssh \notin Range(base)
       THEN Append(base, ssh)
       ELSE base

\* Tabs whose records stay in the order the scan found them.
getSourceTabs_Unsorted(cs, env, ssh, d) ==
    LET sources == ResolvedSources(cs, env, ssh)
    IN [i \in 1..Len(sources) |->
          [pattern |-> sources[i],
           screenshots |-> getScreenshotsFromSource(sources[i], d)]]

getSourceTabs(cs, env, ssh, d) ==
    LET sources == ResolvedSources(cs, env, ssh)
    IN [i \in 1..Len(sources) |->
          [pattern |-> sources[i],
           screenshots |-> SortByMtime(getScreenshotsFromSource(sources[i], d))]]

\* ----------------------------------------------------------------- staging
PastedImage == [type |-> "image", mimeType |-> "image/png", data |-> 0]

\* The image read from a file: its content is identified by the file.
loadImageBase64(p) ==
    [type |-> "image",
     mimeType |-> IF FileExt(p) \in {"jpg", "jpeg"} THEN "image/jpeg"
                  ELSE IF FileExt(p) = "webp" THEN "image/webp"
                  ELSE "image/png",
     data |-> p]

\* Unstage that forgets the store.
Unstage_NoSplice(st, p) ==
    [images |-> st.images, staged |-> SelectSeq(st.staged, LAMBDA q : q # p)]

\* Unstage that forgets the staged mark.
Unstage_KeepMark(st, p) ==
    LET pathIndex == IndexOf(st.staged, p)
    IN [images |-> IF pathIndex # -1 THEN Splice(st.images, pathIndex) ELSE st.images,
        staged |-> st.staged]

\* Removal of a staged path (lines 822-830, 1061-1068, 1161-1168): the
\* path's position among the session's staged paths is used as the index
\* into the store.
Unstage(st, p) ==
    LET pathIndex == IndexOf(st.staged, p)
    IN [images |-> IF pathIndex # -1 THEN Splice(st.images, pathIndex) ELSE st.images,
        staged |-> SelectSeq(st.staged, LAMBDA q : q # p)]

\* A toggle that marks the path staged although its file could not be read.
toggleStageScreenshot_MarkUnread(st, p, readOK) ==
    IF p \in Range(st.staged) THEN Unstage(st, p)
    ELSE IF readOK
         THEN [images |-> Append(st.images, loadImageBase64(p)),
               staged |-> Append(st.staged, p)]
         ELSE [images |-> st.images, staged |-> Append(st.staged, p)]

\* toggleStageScreenshot on the pair (store, staged set); readOK is whether
\* readFileSync succeeds.
toggleStageScreenshot(st, p, readOK) ==
    IF p \in Range(st.staged) THEN Unstage(st, p)
    ELSE IF readOK
         THEN [images |-> Append(st.images, loadImageBase64(p)),
               staged |-> Append(st.staged, p)]
         ELSE st

\* A widget that is never removed.
updateStagedWidget_NeverRemoved(images) == Max(1, Len(images))

\* updateStagedWidget: the N the widget shows, 0 when it is removed.
updateStagedWidget(images) == Len(images)

\* ---------------------------------------------------------------- previews
\* The empty cache, and a cache with an entry set or deleted.
NoThumbs == [p \in {} |-> "null"]
ThumbSet(cache, q, v) == [p \in DOMAIN cache \cup {q} |-> IF p = q THEN v ELSE cache[p]]
ThumbDelete(cache, qs) == [p \in DOMAIN cache \ qs |-> cache[p]]

\* loadThumbnail: the cache it leaves; readOK is whether readFileSync
\* succeeds.
loadThumbnail(cache, p, readOK) ==
    IF p \in DOMAIN cache THEN cache
    ELSE IF FileSize(p) > MAX_THUMB_SIZE THEN ThumbSet(cache, p, "null")
    ELSE IF readOK THEN ThumbSet(cache, p, "img")
    ELSE ThumbSet(cache, p, "null")

\* loadThumbnail reads the file: no cached result, and not above the limit.
ReadsFile(cache, p) == p \notin DOMAIN cache /\ ~(FileSize(p) > MAX_THUMB_SIZE)

\* The preview reads so far with one more read of p, and the reads of the
\* paths of ps alone.
NoReads == [p \in {} |-> 0]
ReadCounted(rd, q) ==
    [p \in DOMAIN rd \cup {q} |-> IF p = q THEN (IF q \in DOMAIN rd THEN rd[q] + 1 ELSE 1)
                                  ELSE rd[p]]
ReadsOf(rd, ps) == [p \in DOMAIN rd \cap ps |-> rd[p]]

\* ------------------------------------------------------------------- inputs
\* Settings the extension is loaded with: config.sources, PI_SCREENSHOTS_DIR
\* and config.sshSync.remoteDir.
Setup(cs, env, ssh) == [sources |-> cs, env |-> env, ssh |-> ssh]
Setups ==
    { Setup(<<>>, Unset, Unset),
      Setup(<<>>, Src(FALSE, 2), Src(TRUE, 3)),
      Setup(<<Src(TRUE, 1), Src(FALSE, 2)>>, Src(FALSE, 2), Src(TRUE, 1)),
      Setup(<<Src(TRUE, 3), Src(FALSE, 2)>>, Unset, Src(TRUE, 3)) }
Texts == {"", "look"}
EventImages == {<<>>, <<PastedImage>>}

\* The keys handleInput distinguishes: "n" is n or N, "s" is space, s or S,
\* "d" is d or D, and "x" is any key it has no branch for.
Keys == {"n", "ctrl+t", "up", "down", "s", "enter", "escape", "o", "d", "x"}

\* What lastOp records for a key pressed in the confirmation state that is
\* not n: that branch does not look at the key.
NotN == "not n"

NoResult == [action |-> "none"]

\* config.sshSync without localWatch, host and port.
NoHost == <<>>
NoSshCfg == [localWatch |-> "", host |-> NoHost, port |-> 0]

\* No overlay: not shown, no timer pending, nothing copied.
NoScript == [LOCAL_WATCH |-> "", REMOTE_HOST |-> <<>>, REMOTE_DIR |-> Unset,
             SERVICE_NAME |-> <<>>, SSH_CMD |-> <<>>, SCP_CMD |-> <<>>]
NoOverlay == [state |-> "closed", scrollOffset |-> 0, copied |-> FALSE, timers |-> 0,
              doneCalls |-> 0, script |-> NoScript, clipboard |-> NoScript]
NoScan == [loc |-> 0, files |-> <<>>]
NoEvent == [text |-> "", images |-> <<>>]
\* snap: store count and staged set before the last stage key press (count,
\* staged) and, when the last two steps were both stage key presses on the same
\* record that did not fail to read it, before the first of the two (twice,
\* bcount, bstaged).
NoSnap == [count |-> -1, staged |-> {}, twice |-> FALSE, bcount |-> -1, bstaged |-> {}]

\* lastOp: the operation of the last step, the key pressed, the paths of the
\* records it acted on, those whose file operation did not fail, those that
\* were marked staged before it, and the number of records it left in the
\* tab it acted on (-1 when it acts on no tab).
OpOn(o, k, ps, oks, m, l) ==
    [op |-> o, key |-> k, paths |-> ps, ok |-> oks, marked |-> m, left |-> l]
Op(o, k) == OpOn(o, k, {}, {}, {}, -1)
Note(l, k, c, t) == [level |-> l, kind |-> k, count |-> c, total |-> t]

\* The state after the extension is loaded, apart from its settings.
Loaded ==
    /\ scannedSources = <<>>
    /\ stagedImages = <<>>
    /\ widget = 0
    /\ ui = "closed"
    /\ tabs = <<>>
    /\ activeTab = 0
    /\ cursor = 0
    /\ scrollOffset = 0
    /\ nukeWarning = FALSE
    /\ alreadyStaged = <<>>
    /\ thumbnails = NoThumbs
    /\ reads = NoReads
    /\ result = "none"
    /\ notes = <<>>
    /\ hookResult = NoResult
    /\ event = NoEvent
    /\ lastOp = Op("init", "")
    /\ snap = NoSnap
    /\ sentClean = FALSE
    /\ scanOut = NoScan
    /\ createdDirs = {}
    /\ sync = NoOverlay

Init ==
    /\ \E su \in Setups :
         /\ configSources = su.sources
         /\ envDir = su.env
         /\ sshRemoteDir = su.ssh
    /\ fileNames = DefaultNames
    /\ sshCfg = NoSshCfg
    /\ inSSH = FALSE
    /\ disk = Paths
    /\ Loaded

\* ------------------------------------------------------------ picker state
\* getCurrentScreenshots: tabs[activeTab]?.screenshots || []
getCurrentScreenshots ==
    IF activeTab + 1 \in 1..Len(tabs) THEN tabs[activeTab + 1].screenshots ELSE <<>>

\* screenshots[cursor] is defined
HasCursorRecord == cursor + 1 \in 1..Len(getCurrentScreenshots)
CursorPath == getCurrentScreenshots[cursor + 1].path

\* findIndex without the test for records.
nonEmptyTabIndex_AnyOther(ts) ==
    LET ok == {i \in 0..(Len(ts) - 1) : i # activeTab}
    IN IF ok = {} THEN -1 ELSE CHOOSE i \in ok : \A j \in ok : i <= j

\* tabs.findIndex((t, i) => i !== activeTab && t.screenshots.length > 0)
nonEmptyTabIndex(ts) ==
    LET ok == {i \in 0..(Len(ts) - 1) : i # activeTab /\ Len(ts[i + 1].screenshots) > 0}
    IN IF ok = {} THEN -1 ELSE CHOOSE i \in ok : \A j \in ok : i <= j

\* render after a handler that called requestRender: the record under the
\* cursor, if any, goes through loadThumbnail; base is the cache the handler
\* left.  The preview read fails when the file no longer exists (a record of
\* a file that was deleted through another tab) and succeeds when it does.
Render(base) ==
    LET recs == IF activeTab' + 1 \in 1..Len(tabs')
                THEN tabs'[activeTab' + 1].screenshots ELSE <<>>
        listed == UNION {{r.path : r \in Range(tabs'[i].screenshots)} : i \in 1..Len(tabs')}
    IN IF cursor' + 1 \in 1..Len(recs)
       THEN LET p == recs[cursor' + 1].path
            IN /\ \E readOK \in {p \in disk'} :
                    thumbnails' = loadThumbnail(base, p, readOK)
               /\ reads' = ReadsOf(IF ReadsFile(base, p) THEN ReadCounted(reads, p) ELSE reads,
                                   listed)
       ELSE /\ thumbnails' = base
            /\ reads' = ReadsOf(reads, listed)

NoOutput ==
    /\ result' = "none"
    /\ notes' = <<>>
    /\ hookResult' = NoResult
    /\ event' = NoEvent

\* A picker that always completes with null.
ClosePicker_AlwaysNull(res, images, staged) ==
    /\ ui' = "closed"
    /\ tabs' = <<>>
    /\ activeTab' = 0
    /\ cursor' = 0
    /\ scrollOffset' = 0
    /\ nukeWarning' = FALSE
    /\ alreadyStaged' = <<>>
    /\ thumbnails' = NoThumbs
    /\ reads' = NoReads
    /\ result' = "null"
    /\ notes' = <<>>
    /\ widget' = updateStagedWidget(images)
    /\ hookResult' = NoResult
    /\ event' = NoEvent

\* done(res), the rest of showScreenshotSelector (lines 1209-1225) and the
\* updateStagedWidget of the command handler; images and staged are the store
\* and the session's staged paths at that moment.
ClosePicker(res, images, staged) ==
    /\ ui' = "closed"
    /\ tabs' = <<>>
    /\ activeTab' = 0
    /\ cursor' = 0
    /\ scrollOffset' = 0
    /\ nukeWarning' = FALSE
    /\ alreadyStaged' = <<>>
    /\ thumbnails' = NoThumbs
    /\ reads' = NoReads
    /\ result' = res
    /\ notes' = IF res = "null" \/ Len(staged) = 0 THEN <<>>
                ELSE <<Note("info",
                            IF Len(images) > Len(staged) THEN "added" ELSE "staged",
                            Len(staged), Len(images))>>
    /\ widget' = updateStagedWidget(images)
    /\ hookResult' = NoResult
    /\ event' = NoEvent

\* ---------------------------------------------------------------- commands
\* A picker that keeps the tabs of sources without records.
OpenPicker_KeepEmptyTabs ==
    /\ ui = "closed"
    /\ LET all == getSourceTabs(configSources, envDir, sshRemoteDir, disk)
           nonEmptyTabs == SelectSeq(all, LAMBDA t : Len(t.screenshots) > 0)
       IN IF Len(nonEmptyTabs) = 0
          THEN /\ notes' = <<Note("warning", "none-found", 0, 0)>>
               /\ widget' = updateStagedWidget(stagedImages)
               /\ UNCHANGED <<ui, tabs, activeTab, cursor, scrollOffset, nukeWarning,
                              alreadyStaged>>
          ELSE /\ ui' = "open"
               /\ tabs' = all
               /\ activeTab' = 0
               /\ cursor' = 0
               /\ scrollOffset' = 0
               /\ nukeWarning' = FALSE
               /\ alreadyStaged' = <<>>
               /\ notes' = <<>>
               /\ UNCHANGED widget
    /\ scannedSources' = ResolvedSources(configSources, envDir, sshRemoteDir)
    /\ result' = "none"
    /\ hookResult' = NoResult
    /\ event' = NoEvent
    /\ lastOp' = Op("ss", "")
    /\ snap' = NoSnap
    /\ UNCHANGED <<cfgVars, scanVars, syncVars, disk, stagedImages, sentClean>>
    /\ IF ui' = "open" THEN Render(NoThumbs) ELSE UNCHANGED <<thumbnails, reads>>

\* /ss and Ctrl+Shift+S: showScreenshotSelector up to the custom UI.
OpenPicker ==
    /\ ui = "closed"
    /\ LET all == getSourceTabs(configSources, envDir, sshRemoteDir, disk)
           nonEmptyTabs == SelectSeq(all, LAMBDA t : Len(t.screenshots) > 0)
       IN IF Len(nonEmptyTabs) = 0
          THEN /\ notes' = <<Note("warning", "none-found", 0, 0)>>
               /\ widget' = updateStagedWidget(stagedImages)
               /\ UNCHANGED <<ui, tabs, activeTab, cursor, scrollOffset, nukeWarning,
                              alreadyStaged>>
          ELSE /\ ui' = "open"
               /\ tabs' = nonEmptyTabs
               /\ activeTab' = 0
               /\ cursor' = 0
               /\ scrollOffset' = 0
               /\ nukeWarning' = FALSE
               /\ alreadyStaged' = <<>>
               /\ notes' = <<>>
               /\ UNCHANGED widget
    /\ scannedSources' = ResolvedSources(configSources, envDir, sshRemoteDir)
    /\ result' = "none"
    /\ hookResult' = NoResult
    /\ event' = NoEvent
    /\ lastOp' = Op("ss", "")
    /\ snap' = NoSnap
    /\ UNCHANGED <<cfgVars, scanVars, syncVars, disk, stagedImages, sentClean>>
    /\ IF ui' = "open" THEN Render(NoThumbs) ELSE UNCHANGED <<thumbnails, reads>>

\* A /ssclear that reports the count and keeps the oldest image.
SsClear_KeepOldest ==
    /\ ui = "closed"
    /\ LET count == Len(stagedImages)
       IN notes' = <<Note("info", IF count > 0 THEN "cleared" ELSE "nothing", count, 0)>>
    /\ stagedImages' = SubSeq(stagedImages, 1, Min(1, Len(stagedImages) - 1))
    /\ widget' = updateStagedWidget(<<>>)
    /\ result' = "none"
    /\ hookResult' = NoResult
    /\ event' = NoEvent
    /\ lastOp' = Op("ssclear", "")
    /\ snap' = NoSnap
    /\ UNCHANGED <<cfgVars, scanVars, syncVars, scannedSources, disk, ui, pickerVars, sentClean>>

\* /ssclear
SsClear ==
    /\ ui = "closed"
    /\ LET count == Len(stagedImages)
       IN notes' = <<Note("info", IF count > 0 THEN "cleared" ELSE "nothing", count, 0)>>
    /\ stagedImages' = <<>>
    /\ widget' = updateStagedWidget(<<>>)
    /\ result' = "none"
    /\ hookResult' = NoResult
    /\ event' = NoEvent
    /\ lastOp' = Op("ssclear", "")
    /\ snap' = NoSnap
    /\ UNCHANGED <<cfgVars, scanVars, syncVars, scannedSources, disk, ui, pickerVars, sentClean>>

\* A hook that puts the staged images in front of the attached ones.
inputHook_StagedFirst(ev, images) ==
    IF Len(images) = 0
    THEN [ret |-> [action |-> "continue"], images |-> images]
    ELSE [ret |-> [action |-> "transform", text |-> ev.text,
                   images |-> images \o ev.images],
          images |-> <<>>]

\* A hook that does not clear the store.
inputHook_KeepStore(ev, images) ==
    IF Len(images) = 0
    THEN [ret |-> [action |-> "continue"], images |-> images]
    ELSE [ret |-> [action |-> "transform", text |-> ev.text,
                   images |-> ev.images \o images],
          images |-> images]

\* The hook's return value and the store it leaves.
inputHook(ev, images) ==
    IF Len(images) = 0
    THEN [ret |-> [action |-> "continue"], images |-> images]
    ELSE [ret |-> [action |-> "transform", text |-> ev.text,
                   images |-> ev.images \o images],
          images |-> <<>>]

\* pi.on("input"): a message is sent.
Send ==
    /\ ui = "closed"
    /\ \E text \in Texts, imgs \in EventImages :
         LET ev == [text |-> text, images |-> imgs]
             r == inputHook(ev, stagedImages)
         IN /\ event' = ev
            /\ hookResult' = r.ret
            /\ stagedImages' = r.images
            /\ widget' = IF r.ret.action = "transform" THEN 0 ELSE widget
            /\ sentClean' = IF r.ret.action = "transform" THEN TRUE ELSE sentClean
    /\ result' = "none"
    /\ notes' = <<>>
    /\ lastOp' = Op("send", "")
    /\ snap' = NoSnap
    /\ UNCHANGED <<cfgVars, scanVars, syncVars, scannedSources, disk, ui, pickerVars>>

\* ------------------------------------------------------------- picker keys
\* Every handleInput branch below is one key press while the picker is open.
Browsing == ui = "open" /\ ~nukeWarning

\* The loop of the confirmed nuke (lines 1057-1072) over the tab's records:
\* deleted is the set of files whose unlinkSync succeeds.
RECURSIVE NukeLoop(_, _, _)
NukeLoop(recs, deleted, st) ==
    IF recs = <<>> THEN st
    ELSE LET p == Head(recs).path
         IN NukeLoop(Tail(recs), deleted,
                     IF p \in deleted /\ p \in Range(st.staged) THEN Unstage(st, p) ELSE st)

\* Second n in the confirmation state (lines 1054-1091).
NukeConfirmed ==
    /\ ui = "open" /\ nukeWarning
    /\ \E k \in {"n"} :
       \E deleted \in SUBSET (disk \cap {r.path : r \in Range(getCurrentScreenshots)}) :
         LET tabScreenshots == tabs[activeTab + 1].screenshots
             st == NukeLoop(tabScreenshots, deleted,
                            [images |-> stagedImages, staged |-> alreadyStaged])
             cleared == [tabs EXCEPT ![activeTab + 1].screenshots = <<>>]
             next == nonEmptyTabIndex(cleared)
         IN /\ disk' = disk \ deleted
            /\ stagedImages' = st.images
            /\ lastOp' = OpOn("nuke", k, {r.path : r \in Range(tabScreenshots)}, deleted,
                              {r.path : r \in Range(tabScreenshots)} \cap Range(alreadyStaged), 0)
            /\ IF next # -1
               THEN /\ tabs' = cleared
                    /\ alreadyStaged' = st.staged
                    /\ activeTab' = next
                    /\ cursor' = 0
                    /\ scrollOffset' = 0
                    /\ nukeWarning' = FALSE
                    /\ NoOutput
                    /\ UNCHANGED <<ui, widget>>
                    /\ Render(ThumbDelete(thumbnails, deleted))
               ELSE ClosePicker("null", st.images, st.staged)
    /\ snap' = NoSnap
    /\ UNCHANGED <<cfgVars, scanVars, syncVars, scannedSources, sentClean>>

\* A cancel that lets the Up key through to its browsing branch.
NukeCancelled_UpFallsThrough ==
    /\ ui = "open" /\ nukeWarning
    /\ \E k \in Keys \ {"n"} :
         /\ lastOp' = Op("cancel-nuke", NotN)
         /\ cursor' = IF k = "up" THEN Max(0, cursor - 1) ELSE cursor
    /\ nukeWarning' = FALSE
    /\ NoOutput
    /\ snap' = NoSnap
    /\ UNCHANGED <<cfgVars, scanVars, syncVars, scannedSources, disk, stagedImages, widget, ui, tabs, activeTab,
                   scrollOffset, alreadyStaged, sentClean>>
    /\ Render(thumbnails)

\* Any other key in the confirmation state (lines 1092-1097).
NukeCancelled ==
    /\ ui = "open" /\ nukeWarning
    /\ \E k \in Keys \ {"n"} : lastOp' = Op("cancel-nuke", NotN)
    /\ nukeWarning' = FALSE
    /\ NoOutput
    /\ snap' = NoSnap
    /\ UNCHANGED <<cfgVars, scanVars, syncVars, scannedSources, disk, stagedImages, widget, ui, tabs, activeTab,
                   cursor, scrollOffset, alreadyStaged, sentClean>>
    /\ Render(thumbnails)

\* A Ctrl+T that stops at the last tab instead of wrapping.
CtrlT_StopsAtLast ==
    /\ Browsing
    /\ IF Len(tabs) > 1
       THEN /\ activeTab' = Min(activeTab + 1, Len(tabs) - 1)
            /\ cursor' = 0
            /\ scrollOffset' = 0
       ELSE UNCHANGED <<activeTab, cursor, scrollOffset>>
    /\ lastOp' = Op("tab", "ctrl+t")
    /\ NoOutput
    /\ snap' = NoSnap
    /\ UNCHANGED <<cfgVars, scanVars, syncVars, scannedSources, disk, stagedImages, widget, ui, tabs, nukeWarning,
                   alreadyStaged, sentClean>>
    /\ IF Len(tabs) > 1 THEN Render(thumbnails) ELSE UNCHANGED <<thumbnails, reads>>

\* Ctrl+T (lines 1101-1110).
CtrlT ==
    /\ Browsing
    /\ IF Len(tabs) > 1
       THEN /\ activeTab' = (activeTab + 1) % Len(tabs)
            /\ cursor' = 0
            /\ scrollOffset' = 0
       ELSE UNCHANGED <<activeTab, cursor, scrollOffset>>
    /\ lastOp' = Op("tab", "ctrl+t")
    /\ NoOutput
    /\ snap' = NoSnap
    /\ UNCHANGED <<cfgVars, scanVars, syncVars, scannedSources, disk, stagedImages, widget, ui, tabs, nukeWarning,
                   alreadyStaged, sentClean>>
    /\ IF Len(tabs) > 1 THEN Render(thumbnails) ELSE UNCHANGED <<thumbnails, reads>>

\* First n (lines 1113-1117).
FirstN ==
    /\ Browsing
    /\ lastOp' = Op("warn", "n")
    /\ nukeWarning' = TRUE
    /\ NoOutput
    /\ snap' = NoSnap
    /\ UNCHANGED <<cfgVars, scanVars, syncVars, scannedSources, disk, stagedImages, widget, ui, tabs, activeTab,
                   cursor, scrollOffset, alreadyStaged, sentClean>>
    /\ Render(thumbnails)

\* Up (lines 1119-1124).
Up ==
    /\ Browsing
    /\ LET c == Max(0, cursor - 1)
       IN /\ cursor' = c
          /\ scrollOffset' = IF c < scrollOffset THEN c ELSE scrollOffset
    /\ lastOp' = Op("up", "up")
    /\ NoOutput
    /\ snap' = NoSnap
    /\ UNCHANGED <<cfgVars, scanVars, syncVars, scannedSources, disk, stagedImages, widget, ui, tabs, activeTab,
                   nukeWarning, alreadyStaged, sentClean>>
    /\ Render(thumbnails)

\* Down (lines 1125-1130).
Down ==
    /\ Browsing
    /\ LET c == Min(Len(getCurrentScreenshots) - 1, cursor + 1)
       IN /\ cursor' = c
          /\ scrollOffset' = IF c >= scrollOffset + VISIBLE_ITEMS
                              THEN c - VISIBLE_ITEMS + 1 ELSE scrollOffset
    /\ lastOp' = Op("down", "down")
    /\ NoOutput
    /\ snap' = NoSnap
    /\ UNCHANGED <<cfgVars, scanVars, syncVars, scannedSources, disk, stagedImages, widget, ui, tabs, activeTab,
                   nukeWarning, alreadyStaged, sentClean>>
    /\ Render(thumbnails)

\* Space, s or S (lines 1131-1136): the read of a file that no longer
\* exists fails, the read of an existing file may fail.
Stage ==
    /\ Browsing
    /\ \E k \in {"s"} :
         IF HasCursorRecord
         THEN \E readOK \in {b \in BOOLEAN : b => CursorPath \in disk} :
                LET p == CursorPath
                    isStaged == p \in Range(alreadyStaged)
                    st == toggleStageScreenshot(
                              [images |-> stagedImages, staged |-> alreadyStaged], p, readOK)
                IN /\ isStaged \/ Len(stagedImages) < MaxStaged
                   /\ stagedImages' = st.images
                   /\ alreadyStaged' = st.staged
                   /\ lastOp' = OpOn("stage", k, {p}, IF isStaged \/ readOK THEN {p} ELSE {},
                                     {p} \cap Range(alreadyStaged), Len(getCurrentScreenshots))
                   /\ sentClean' = IF ~isStaged /\ readOK THEN FALSE ELSE sentClean
                   /\ snap' = LET again == /\ lastOp.op = "stage"
                                           /\ lastOp.ok = {p}
                                           /\ isStaged \/ readOK
                              IN [count |-> Len(stagedImages),
                                  staged |-> Range(alreadyStaged),
                                  twice |-> again,
                                  bcount |-> IF again THEN snap.count ELSE -1,
                                  bstaged |-> IF again THEN snap.staged ELSE {}]
         ELSE /\ lastOp' = Op("stage", k)
              /\ snap' = NoSnap
              /\ UNCHANGED <<stagedImages, alreadyStaged, sentClean>>
    /\ NoOutput
    /\ UNCHANGED <<cfgVars, scanVars, syncVars, scannedSources, disk, widget, ui, tabs, activeTab, cursor,
                   scrollOffset, nukeWarning>>
    /\ IF HasCursorRecord THEN Render(thumbnails) ELSE UNCHANGED <<thumbnails, reads>>

\* Enter (lines 1137-1140).
Enter ==
    /\ Browsing
    /\ ClosePicker("empty", stagedImages, alreadyStaged)
    /\ lastOp' = Op("enter", "enter")
    /\ snap' = NoSnap
    /\ UNCHANGED <<cfgVars, scanVars, syncVars, scannedSources, disk, stagedImages, sentClean>>

\* Escape (lines 1141-1143).
Escape ==
    /\ Browsing
    /\ ClosePicker("null", stagedImages, alreadyStaged)
    /\ lastOp' = Op("escape", "escape")
    /\ snap' = NoSnap
    /\ UNCHANGED <<cfgVars, scanVars, syncVars, scannedSources, disk, stagedImages, sentClean>>

\* o (lines 1144-1148) opens the external viewer; any key without a branch
\* does nothing.
OpenOrOther ==
    /\ Browsing
    /\ \E k \in {"o", "x"} : lastOp' = Op("noop", "o or x")
    /\ NoOutput
    /\ snap' = NoSnap
    /\ UNCHANGED <<cfgVars, scanVars, syncVars, scannedSources, disk, stagedImages, widget, ui, pickerVars, sentClean>>

\* A delete that drops the cache entry before it unlinks the file.
Delete_CacheDroppedFirst ==
    /\ Browsing
    /\ \E k \in {"d"} :
         IF ~HasCursorRecord
         THEN /\ lastOp' = Op("delete", k)
              /\ NoOutput
              /\ UNCHANGED <<disk, stagedImages, widget, ui, pickerVars>>
         ELSE \E unlinkOK \in {b \in BOOLEAN : b => CursorPath \in disk} :
           LET p == CursorPath
               st == IF p \in Range(alreadyStaged)
                     THEN Unstage([images |-> stagedImages, staged |-> alreadyStaged], p)
                     ELSE [images |-> stagedImages, staged |-> alreadyStaged]
               old == tabs[activeTab + 1].screenshots
               idx == IndexOf([i \in 1..Len(old) |-> old[i].path], p)
               tabScreenshots == Splice(old, idx)
               removed == [tabs EXCEPT ![activeTab + 1].screenshots = tabScreenshots]
               next == nonEmptyTabIndex(removed)
           IN /\ lastOp' = OpOn("delete", k, {p}, IF unlinkOK THEN {p} ELSE {},
                                {p} \cap Range(alreadyStaged),
                                IF unlinkOK THEN Len(tabScreenshots) ELSE Len(old))
              /\ IF ~unlinkOK
                 THEN /\ NoOutput
                      /\ thumbnails' = ThumbDelete(thumbnails, {p})
                      /\ UNCHANGED reads
                      /\ UNCHANGED <<disk, stagedImages, widget, ui, tabs, activeTab, cursor,
                                     scrollOffset, nukeWarning, alreadyStaged>>
                 ELSE /\ disk' = disk \ {p}
                      /\ stagedImages' = st.images
                      /\ IF Len(tabScreenshots) = 0 /\ next = -1
                         THEN ClosePicker("null", st.images, st.staged)
                         ELSE /\ tabs' = removed
                              /\ alreadyStaged' = st.staged
                              /\ IF Len(tabScreenshots) = 0
                                 THEN /\ activeTab' = next
                                      /\ cursor' = 0
                                      /\ scrollOffset' = 0
                                 ELSE /\ activeTab' = activeTab
                                      /\ cursor' = IF cursor >= Len(tabScreenshots)
                                                    THEN Len(tabScreenshots) - 1 ELSE cursor
                                      /\ scrollOffset' =
                                            IF scrollOffset > 0
                                               /\ scrollOffset >= Len(tabScreenshots) - VISIBLE_ITEMS + 1
                                            THEN Max(0, Len(tabScreenshots) - VISIBLE_ITEMS)
                                            ELSE scrollOffset
                              /\ NoOutput
                              /\ UNCHANGED <<ui, widget, nukeWarning>>
                              /\ Render(ThumbDelete(thumbnails, {p}))
    /\ snap' = NoSnap
    /\ UNCHANGED <<cfgVars, scanVars, syncVars, scannedSources, sentClean>>

\* A delete that leaves the scroll offset where it was.
Delete_ScrollKept ==
    /\ Browsing
    /\ \E k \in {"d"} :
         IF ~HasCursorRecord
         THEN /\ lastOp' = Op("delete", k)
              /\ NoOutput
              /\ UNCHANGED <<disk, stagedImages, widget, ui, pickerVars>>
         ELSE \E unlinkOK \in {b \in BOOLEAN : b => CursorPath \in disk} :
           LET p == CursorPath
               st == IF p \in Range(alreadyStaged)
                     THEN Unstage([images |-> stagedImages, staged |-> alreadyStaged], p)
                     ELSE [images |-> stagedImages, staged |-> alreadyStaged]
               old == tabs[activeTab + 1].screenshots
               idx == IndexOf([i \in 1..Len(old) |-> old[i].path], p)
               tabScreenshots == Splice(old, idx)
               removed == [tabs EXCEPT ![activeTab + 1].screenshots = tabScreenshots]
               next == nonEmptyTabIndex(removed)
           IN /\ lastOp' = OpOn("delete", k, {p}, IF unlinkOK THEN {p} ELSE {},
                                {p} \cap Range(alreadyStaged),
                                IF unlinkOK THEN Len(tabScreenshots) ELSE Len(old))
              /\ IF ~unlinkOK
                 THEN /\ NoOutput
                      /\ UNCHANGED <<disk, stagedImages, widget, ui, pickerVars>>
                 ELSE /\ disk' = disk \ {p}
                      /\ stagedImages' = st.images
                      /\ IF Len(tabScreenshots) = 0 /\ next = -1
                         THEN ClosePicker("null", st.images, st.staged)
                         ELSE /\ tabs' = removed
                              /\ alreadyStaged' = st.staged
                              /\ IF Len(tabScreenshots) = 0
                                 THEN /\ activeTab' = next
                                      /\ cursor' = 0
                                      /\ scrollOffset' = 0
                                 ELSE /\ activeTab' = activeTab
                                      /\ cursor' = IF cursor >= Len(tabScreenshots)
                                                    THEN Len(tabScreenshots) - 1 ELSE cursor
                                      /\ scrollOffset' = scrollOffset
                              /\ NoOutput
                              /\ UNCHANGED <<ui, widget, nukeWarning>>
                              /\ Render(ThumbDelete(thumbnails, {p}))
    /\ snap' = NoSnap
    /\ UNCHANGED <<cfgVars, scanVars, syncVars, scannedSources, sentClean>>

\* d or D (lines 1149-1204): unlinking a file that no longer exists fails,
\* unlinking an existing file may fail.
Delete ==
    /\ Browsing
    /\ \E k \in {"d"} :
         IF ~HasCursorRecord
         THEN /\ lastOp' = Op("delete", k)
              /\ NoOutput
              /\ UNCHANGED <<disk, stagedImages, widget, ui, pickerVars>>
         ELSE \E unlinkOK \in {b \in BOOLEAN : b => CursorPath \in disk} :
           LET p == CursorPath
               st == IF p \in Range(alreadyStaged)
                     THEN Unstage([images |-> stagedImages, staged |-> alreadyStaged], p)
                     ELSE [images |-> stagedImages, staged |-> alreadyStaged]
               old == tabs[activeTab + 1].screenshots
               idx == IndexOf([i \in 1..Len(old) |-> old[i].path], p)
               tabScreenshots == Splice(old, idx)
               removed == [tabs EXCEPT ![activeTab + 1].screenshots = tabScreenshots]
               next == nonEmptyTabIndex(removed)
           IN /\ lastOp' = OpOn("delete", k, {p}, IF unlinkOK THEN {p} ELSE {},
                                {p} \cap Range(alreadyStaged),
                                IF unlinkOK THEN Len(tabScreenshots) ELSE Len(old))
              /\ IF ~unlinkOK
                 THEN /\ NoOutput
                      /\ UNCHANGED <<disk, stagedImages, widget, ui, pickerVars>>
                 ELSE /\ disk' = disk \ {p}
                      /\ stagedImages' = st.images
                      /\ IF Len(tabScreenshots) = 0 /\ next = -1
                         THEN ClosePicker("null", st.images, st.staged)
                         ELSE /\ tabs' = removed
                              /\ alreadyStaged' = st.staged
                              /\ IF Len(tabScreenshots) = 0
                                 THEN /\ activeTab' = next
                                      /\ cursor' = 0
                                      /\ scrollOffset' = 0
                                 ELSE /\ activeTab' = activeTab
                                      /\ cursor' = IF cursor >= Len(tabScreenshots)
                                                    THEN Len(tabScreenshots) - 1 ELSE cursor
                                      /\ scrollOffset' =
                                            IF scrollOffset > 0
                                               /\ scrollOffset >= Len(tabScreenshots) - VISIBLE_ITEMS + 1
                                            THEN Max(0, Len(tabScreenshots) - VISIBLE_ITEMS)
                                            ELSE scrollOffset
                              /\ NoOutput
                              /\ UNCHANGED <<ui, widget, nukeWarning>>
                              /\ Render(ThumbDelete(thumbnails, {p}))
    /\ snap' = NoSnap
    /\ UNCHANGED <<cfgVars, scanVars, syncVars, scannedSources, sentClean>>

Next ==
    \/ OpenPicker
    \/ SsClear
    \/ Send
    \/ NukeConfirmed
    \/ NukeCancelled
    \/ CtrlT
    \/ FirstN
    \/ Up
    \/ Down
    \/ Stage
    \/ Enter
    \/ Escape
    \/ OpenOrOther
    \/ Delete

Spec == Init /\ [][Next]_vars

\* ------------------------------------------------------ source resolution
\* Every combination of settings: config.sources of up to MaxSources source
\* strings, PI_SCREENSHOTS_DIR and sshSync.remoteDir unset or a source string.
MaxSources == 2
SrcStrings == {Src(t, l) : t \in BOOLEAN, l \in Locs}
SourceLists == UNION {[1..n -> SrcStrings] : n \in 0..MaxSources}
AllSetups ==
    {Setup(cs, env, ssh) : cs \in SourceLists,
                           env \in SrcStrings \cup {Unset},
                           ssh \in SrcStrings \cup {Unset}}

InitSources ==
    /\ \E su \in AllSetups :
         /\ configSources = su.sources
         /\ envDir = su.env
         /\ sshRemoteDir = su.ssh
    /\ fileNames = DefaultNames
    /\ sshCfg = NoSshCfg
    /\ inSSH = FALSE
    /\ disk = Paths
    /\ Loaded

\* The picker is opened and closed again, any number of times.
NextSources ==
    \/ OpenPicker
    \/ Escape

SpecSources == InitSources /\ [][NextSources]_vars

\* ------------------------------------------------------- directory scans
\* getScreenshotsFromDirectory on its own: the entries of the default
\* directory have any names, any of the files may be missing (an entry
\* without a file is a dangling link), and the directory scanned is the
\* default directory, an empty directory or a directory that does not exist.
DirLocs == {l \in Locs \cup {MissingLoc} : ~isGlobPattern(Src(FALSE, l))}

InitScan ==
    /\ configSources = <<>>
    /\ envDir = Unset
    /\ sshRemoteDir = Unset
    /\ fileNames \in {f \in [Paths -> Names] :
                        \A p \in Paths \ Listing(DefaultLoc) : f[p] = DefaultNames[p]}
    /\ sshCfg = NoSshCfg
    /\ inSSH = FALSE
    /\ disk \in SUBSET Paths
    /\ Loaded

ScanDirectory ==
    /\ \E l \in DirLocs :
         scanOut' = [loc |-> l,
                     files |-> getScreenshotsFromDirectory(Src(FALSE, l), disk)]
    /\ UNCHANGED <<cfgVars, syncVars, scannedSources, disk, stagedImages, widget, ui,
                   pickerVars, result, notes, hookResult, event, lastOp, snap, sentClean>>

NextScan == ScanDirectory

SpecScan == InitScan /\ [][NextScan]_vars

\* ---------------------------------------------------------- source scans
\* getScreenshotsFromSource on its own: the files have the names a glob can
\* match, any of them may be missing, and the source is written with a leading "~/" or as an absolute path and names
\* the default directory, the glob of location 2 or a location of
\* WrittenLocs.
ScanSources == {Src(t, l) : t \in BOOLEAN, l \in {DefaultLoc, 2, MissingLoc} \cup WrittenLocs}

InitSourceScan ==
    /\ configSources = <<>>
    /\ envDir = Unset
    /\ sshRemoteDir = Unset
    /\ fileNames \in {f \in [Paths -> MatchedNames \cup {DefaultNames[p] : p \in Paths}] :
                        \A p \in Paths \ Listing(DefaultLoc) : f[p] = DefaultNames[p]}
    /\ sshCfg = NoSshCfg
    /\ inSSH = FALSE
    /\ disk \in SUBSET Paths
    /\ Loaded

ScanSource ==
    /\ \E s \in ScanSources :
         scanOut' = [loc |-> s.loc, files |-> getScreenshotsFromSource(s, disk)]
    /\ UNCHANGED <<cfgVars, syncVars, scannedSources, disk, stagedImages, widget, ui,
                   pickerVars, result, notes, hookResult, event, lastOp, snap, sentClean>>

NextSourceScan == ScanSource

SpecSourceScan == InitSourceScan /\ [][NextSourceScan]_vars

\* ----------------------------------------------------------- /ss-ssh-sync
\* Host names and user@host strings are the sequences of the pieces they are
\* written with: <<"dev", "@", "devbox", ".", "lan">> is "dev@devbox.lan".
HostName == <<"devbox", ".", "lan">>     \* hostname()
User == "dev"                            \* USER
ConfigHosts == {<<"localhost">>, <<"ec2-1-2-3-4", ".", "compute", ".", "com">>}
ConfigPorts == {0, 2222}                 \* 0: no port configured
DefaultRemoteDir == Src(TRUE, 3)         \* "~/Screenshots"

SCRIPT_LINES == 282
VISIBLE_LINES == 20
MaxTimers == 2       \* c is not pressed while this many timers are pending

\* getSSHConnectionInfo: <<>> stands for null.
getSSHConnectionInfo ==
    IF inSSH THEN [host |-> HostName, user |-> User] ELSE <<>>

\* remoteHost.replace(/[@.]/g, "-")
ReplaceAtAndDot(str) == [i \in 1..Len(str) |-> IF str[i] \in {"@", "."} THEN "-" ELSE str[i]]

\* generateSSHSyncScript: the values the template is filled with.
generateSSHSyncScript(cfg, dir, remoteHost) ==
    [LOCAL_WATCH |-> IF cfg.localWatch # "" THEN cfg.localWatch ELSE "~/Desktop",
     REMOTE_HOST |-> remoteHost,
     REMOTE_DIR |-> IF dir # Unset THEN dir ELSE DefaultRemoteDir,
     SERVICE_NAME |-> <<"pi-ss-sync-">> \o ReplaceAtAndDot(remoteHost),
     SSH_CMD |-> IF cfg.port # 0 THEN <<"ssh", " -p ", cfg.port>> ELSE <<"ssh">>,
     SCP_CMD |-> IF cfg.port # 0 THEN <<"scp", " -P ", cfg.port>> ELSE <<"scp">>]

InitSsh ==
    /\ configSources = <<>>
    /\ envDir = Unset
    /\ sshRemoteDir \in {Unset, Src(TRUE, 3), Src(FALSE, MissingLoc)}
    /\ fileNames = DefaultNames
    /\ sshCfg \in [localWatch : {"", "~/Screenshots"},
                    host : {NoHost} \cup ConfigHosts,
                    port : ConfigPorts]
    /\ inSSH \in BOOLEAN
    /\ disk = Paths
    /\ Loaded

\* What an overlay step leaves alone.
SyncIdle ==
    /\ result' = "none"
    /\ hookResult' = NoResult
    /\ event' = NoEvent
    /\ snap' = NoSnap
    /\ UNCHANGED <<cfgVars, scanVars, scannedSources, disk, stagedImages, widget, ui,
                   pickerVars, sentClean>>

\* done(): the overlay is removed and the handler goes on to its last
\* notification; o is the overlay before the call.
Done(o) ==
    /\ sync' = [o EXCEPT !.state = "closed", !.doneCalls = o.doneCalls + 1]
    /\ notes' = IF o.state = "open" THEN <<Note("info", "paste", 0, 0)>> ELSE <<>>

\* /ss-ssh-sync up to the overlay (lines 1269-1301).  A new overlay is not
\* asked for while a timer of the last one is pending.
SshSync ==
    /\ ui = "closed"
    /\ sync.state = "closed"
    /\ sync.timers = 0
    /\ LET sshInfo == getSSHConnectionInfo
       IN IF sshInfo = <<>>
          THEN /\ notes' = <<Note("warning", "not-ssh", 0, 0)>>
               /\ UNCHANGED <<createdDirs, sync>>
          ELSE LET remoteDir == IF sshRemoteDir # Unset THEN sshRemoteDir
                                ELSE DefaultRemoteDir
                   expandedRemoteDir == expandPath(remoteDir)
                   remoteHost == <<sshInfo.user, "@">> \o sshInfo.host
                   script == generateSSHSyncScript(sshCfg, sshRemoteDir, remoteHost)
               IN /\ IF existsSync(expandedRemoteDir)
                     THEN UNCHANGED createdDirs
                     ELSE \E mkdirOK \in BOOLEAN :
                            createdDirs' = IF mkdirOK
                                           THEN createdDirs \cup {expandedRemoteDir.loc}
                                           ELSE createdDirs
                  /\ sync' = [state |-> "open", scrollOffset |-> 0, copied |-> FALSE,
                              timers |-> 0, doneCalls |-> 0, script |-> script,
                              clipboard |-> sync.clipboard]
                  /\ notes' = <<>>
    /\ lastOp' = Op("ss-ssh-sync", "")
    /\ SyncIdle

\* Escape or q (lines 1371-1373).
OverlayClose ==
    /\ sync.state = "open"
    /\ Done(sync)
    /\ lastOp' = Op("overlay", "escape or q")
    /\ UNCHANGED createdDirs
    /\ SyncIdle

\* c (lines 1374-1382): copyToClipboard may fail.
OverlayCopy ==
    /\ sync.state = "open"
    /\ sync.timers < MaxTimers
    /\ \E copyOK \in BOOLEAN :
         sync' = IF copyOK
                 THEN [sync EXCEPT !.copied = TRUE, !.timers = sync.timers + 1,
                                   !.clipboard = sync.script]
                 ELSE sync
    /\ notes' = <<>>
    /\ lastOp' = Op("overlay", "c")
    /\ UNCHANGED createdDirs
    /\ SyncIdle

\* The scroll keys (lines 1383-1401).
OverlayScroll ==
    /\ sync.state = "open"
    /\ \E k \in {"up", "down", "pageUp", "pageDown", "home", "end"} :
         LET maxScroll == Max(0, SCRIPT_LINES - VISIBLE_LINES)
             so == sync.scrollOffset
         IN /\ sync' = [sync EXCEPT !.scrollOffset =
                          CASE k = "up" -> Max(0, so - 1)
                            [] k = "down" -> Min(maxScroll, so + 1)
                            [] k = "pageUp" -> Max(0, so - VISIBLE_LINES)
                            [] k = "pageDown" -> Min(maxScroll, so + VISIBLE_LINES)
                            [] k = "home" -> 0
                            [] OTHER -> maxScroll]
            /\ lastOp' = Op("overlay", k)
    /\ notes' = <<>>
    /\ UNCHANGED createdDirs
    /\ SyncIdle

\* A timer started by c expires: setTimeout(() => done(), 500).
TimerFires ==
    /\ sync.timers > 0
    /\ Done([sync EXCEPT !.timers = sync.timers - 1])
    /\ lastOp' = Op("timer", "")
    /\ UNCHANGED createdDirs
    /\ SyncIdle

NextSsh ==
    \/ SshSync
    \/ OverlayClose
    \/ OverlayCopy
    \/ OverlayScroll
    \/ TimerFires

SpecSsh == InitSsh /\ [][NextSsh]_vars

\* -------------------------------------------------------------- scrolling
\* The picker over a directory with more screenshots than the list shows at
\* once, alone or next to the default directory: the cursor keys, Ctrl+T, d
\* and Escape.  Nothing is staged and nothing is nuked.
ScrollSetups ==
    {Setup(<<Src(FALSE, ManyLoc)>>, Unset, Unset),
     Setup(<<Src(FALSE, ManyLoc), Src(TRUE, DefaultLoc)>>, Unset, Unset),
     Setup(<<Src(TRUE, DefaultLoc), Src(FALSE, ManyLoc)>>, Unset, Unset)}

InitScroll ==
    /\ \E su \in ScrollSetups :
         /\ configSources = su.sources
         /\ envDir = su.env
         /\ sshRemoteDir = su.ssh
    /\ fileNames = [p \in Paths \cup ManyPaths |->
                       IF p \in Paths THEN DefaultNames[p] ELSE ShotName]
    /\ sshCfg = NoSshCfg
    /\ inSSH = FALSE
    /\ disk = Paths \cup ManyPaths
    /\ Loaded

\* The file system lets at most MaxDeleted unlinks succeed; every other
\* unlinkSync fails.
DeletedAtMost == Cardinality((Paths \cup ManyPaths) \ disk') <= MaxDeleted

DeleteSome == Delete /\ DeletedAtMost

NextScroll ==
    \/ OpenPicker
    \/ CtrlT
    \/ Up
    \/ Down
    \/ Escape
    \/ DeleteSome

SpecScroll == InitScroll /\ [][NextScroll]_vars

\* ------------------------------------------------------------ tab cycling
\* The picker with one, two and three tabs (the third is the sshSync
\* directory, the default directory under its absolute path): Ctrl+T, Down,
\* the stage key, d and Escape.
TabSetups ==
    {Setup(<<>>, Unset, Unset),
     Setup(<<Src(TRUE, DefaultLoc), Src(FALSE, 2)>>, Unset, Unset),
     Setup(<<Src(TRUE, DefaultLoc), Src(FALSE, 2)>>, Unset, Src(FALSE, DefaultLoc))}

InitTabs ==
    /\ \E su \in TabSetups :
         /\ configSources = su.sources
         /\ envDir = su.env
         /\ sshRemoteDir = su.ssh
    /\ fileNames = DefaultNames
    /\ sshCfg = NoSshCfg
    /\ inSSH = FALSE
    /\ disk = Paths
    /\ Loaded

NextTabs ==
    \/ OpenPicker
    \/ CtrlT
    \/ Down
    \/ Stage
    \/ Delete
    \/ Escape

SpecTabs == InitTabs /\ [][NextTabs]_vars

\* ================================================================ properties
\* Number of images of the store that were read from file p.
CountData(p, images) == Cardinality({i \in 1..Len(images) : images[i].data = p})

\* a is b with some elements removed.
RECURSIVE IsSubseq(_, _)
IsSubseq(a, b) ==
    IF a = <<>> THEN TRUE
    ELSE IF b = <<>> THEN FALSE
    ELSE IF Head(a) = Head(b) THEN IsSubseq(Tail(a), Tail(b))
    ELSE IsSubseq(a, Tail(b))

TabPaths(t) == {r.path : r \in Range(t.screenshots)}

\* C1: whenever a picker is open, the store and the staged-path set are in
\* lockstep: the store holds exactly one image per staged path, and its i-th
\* image is the image of the i-th staged path.
C1_Lockstep ==
    ui = "open" =>
        stagedImages = [i \in 1..Len(alreadyStaged) |-> loadImageBase64(alreadyStaged[i])]

\* C2: the store never holds two images staged from the same file path.
C2_NoPathTwice ==
    \A p \in Paths : CountData(p, stagedImages) <= 1

\* C3: a send with n >= 1 staged images returns a transform with the original
\* text and the attached images followed by the n staged images, in the order
\* they were staged (the store only ever grows at its end, by a stage key),
\* and leaves the store empty; a send with an empty store returns continue
\* and changes nothing.
C3_SendAttachesStaged ==
    [][/\ lastOp'.op = "send" =>
            IF Len(stagedImages) >= 1
            THEN /\ hookResult' = [action |-> "transform", text |-> event'.text,
                                   images |-> event'.images \o stagedImages]
                 /\ stagedImages' = <<>>
            ELSE /\ hookResult' = [action |-> "continue"]
                 /\ UNCHANGED <<stagedImages, widget, disk, ui, pickerVars>>
       /\ \/ IsSubseq(stagedImages', stagedImages)
          \/ /\ lastOp'.op = "stage"
             /\ \E p \in lastOp'.paths : stagedImages' = Append(stagedImages, loadImageBase64(p))
      ]_vars

C3_Witness ==
    /\ lastOp.op = "send"
    /\ hookResult.action = "transform"
    /\ event.images # <<>>
    /\ Len(hookResult.images) = 3
    /\ hookResult.images[2] # hookResult.images[3]
    /\ stagedImages = <<>>

\* C4: once a send has attached the staged images, a later send with no
\* staging in between attaches nothing.
C4_AttachedOnce ==
    [][(sentClean /\ lastOp'.op = "send") =>
            /\ hookResult' = [action |-> "continue"]
            /\ stagedImages' = <<>>]_vars

C4_Witness ==
    /\ sentClean
    /\ lastOp.op = "send"
    /\ hookResult.action = "continue"

\* C5: an image staged in an earlier picker session stays in the store until
\* a send or /ssclear: no operation on other records removes it.
C5_EarlierImagesKept ==
    [][lastOp'.op \notin {"send", "ssclear"} =>
            \A p \in Paths \ (lastOp'.paths \cup Range(alreadyStaged)) :
                CountData(p, stagedImages') = CountData(p, stagedImages)]_vars

\* C6: in the browsing state Enter closes the picker with an empty result and
\* Escape closes it with null, and neither changes the store.
C6_EnterEscapeKeepStore ==
    [][(Browsing /\ lastOp'.key \in {"enter", "escape"}) =>
            /\ ui' = "closed"
            /\ result' = IF lastOp'.key = "enter" THEN "empty" ELSE "null"
            /\ stagedImages' = stagedImages
            /\ disk' = disk]_vars

C6_Witness ==
    /\ lastOp.key = "escape"
    /\ ui = "closed"
    /\ result = "null"
    /\ Len(stagedImages) = 2

C6_WitnessEnter ==
    /\ lastOp.key = "enter"
    /\ result = "empty"
    /\ Len(stagedImages) >= 1

\* C7: two stage key presses in a row on the same record, neither failing to
\* read the file, return the store's count and the staged-path set to their
\* values before the first press.
C7_ToggleTwice ==
    snap.twice =>
        /\ Len(stagedImages) = snap.bcount
        /\ Range(alreadyStaged) = snap.bstaged

C7_Witness ==
    /\ snap.twice
    /\ lastOp.op = "stage"
    /\ snap.bcount = 2
    /\ Cardinality(snap.bstaged) = 1

\* C8: a successful single delete of a staged record under the cursor drops
\* the store's count by exactly one and leaves the path neither in the tab's
\* record list nor in the staged set.
C8_DeleteStaged ==
    [][(/\ Browsing
        /\ lastOp'.key = "d"
        /\ HasCursorRecord
        /\ lastOp'.ok # {}
        /\ CursorPath \in Range(alreadyStaged)) =>
            /\ Len(stagedImages') = Len(stagedImages) - 1
            /\ CursorPath \notin Range(alreadyStaged')
            /\ CursorPath \notin disk'
            /\ ui' = "open" => CursorPath \notin TabPaths(tabs'[activeTab + 1])]_vars

C8_Witness ==
    /\ lastOp.op = "delete"
    /\ lastOp.ok # {}
    /\ lastOp.marked = lastOp.ok
    /\ ui = "open"
    /\ Len(stagedImages) = 1

\* C9: when a successful delete removes the last record of the active tab,
\* the picker closes if no other tab has records; otherwise it stays open on
\* a tab that has records, with cursor and scroll offset 0.
C9_DeleteLastRecord ==
    [][(/\ Browsing
        /\ lastOp'.key = "d"
        /\ lastOp'.ok # {}
        /\ Len(getCurrentScreenshots) = 1) =>
            IF \A i \in 1..Len(tabs) : i # activeTab + 1 => tabs[i].screenshots = <<>>
            THEN ui' = "closed"
            ELSE /\ ui' = "open"
                 /\ activeTab' # activeTab
                 /\ tabs'[activeTab' + 1].screenshots # <<>>
                 /\ tabs'[activeTab + 1].screenshots = <<>>
                 /\ cursor' = 0
                 /\ scrollOffset' = 0]_vars

C9_Witness ==
    /\ lastOp.op = "delete"
    /\ lastOp.ok # {}
    /\ lastOp.left = 0
    /\ ui = "open"
    /\ activeTab = 0
    /\ Len(tabs) = 2

C9_WitnessClosed ==
    /\ lastOp.op = "delete"
    /\ lastOp.ok # {}
    /\ lastOp.left = 0
    /\ ui = "closed"

\* C10: a nuke happens only on the second of two consecutive presses of n;
\* the first press only enters the confirmation state, and any other key in
\* the confirmation state only returns to browsing.
C10_NukeNeedsTwoPresses ==
    [][/\ (Browsing /\ lastOp'.key = "n") =>
            /\ nukeWarning'
            /\ UNCHANGED <<disk, stagedImages, widget, ui, tabs, activeTab, cursor,
                           scrollOffset, alreadyStaged>>
       /\ (ui = "open" /\ nukeWarning /\ lastOp'.key = NotN) =>
            /\ ~nukeWarning'
            /\ UNCHANGED <<disk, stagedImages, widget, ui, tabs, activeTab, cursor,
                           scrollOffset, alreadyStaged>>
       /\ (lastOp'.op = "nuke" \/ Cardinality(disk \ disk') > 1) =>
            /\ nukeWarning
            /\ lastOp.key = "n"
            /\ lastOp'.key = "n"
      ]_vars

C10_Witness ==
    /\ lastOp.op = "cancel-nuke"
    /\ lastOp.key = NotN
    /\ ui = "open"
    /\ cursor = 1
    /\ activeTab = 1
    /\ alreadyStaged # <<>>

C10_WitnessNuke ==
    /\ lastOp.op = "nuke"
    /\ Cardinality(lastOp.ok) = 2
    /\ ui = "open"

\* C11: a d key press whose unlink fails changes nothing: the tabs' record
\* lists, cursor, scroll offset, active tab, staged marks, store, thumbnail
\* cache and files are as before, and the picker stays open.
C11_FailedDeleteChangesNothing ==
    [][(/\ Browsing
        /\ lastOp'.key = "d"
        /\ HasCursorRecord
        /\ lastOp'.ok = {}) =>
            /\ ui' = "open"
            /\ UNCHANGED <<tabs, activeTab, cursor, scrollOffset, nukeWarning,
                           alreadyStaged, stagedImages, thumbnails, disk, widget>>]_vars

\* A failed unlink of an existing, staged file whose preview is cached.
C11_Witness ==
    /\ lastOp.op = "delete"
    /\ lastOp.paths # {}
    /\ lastOp.ok = {}
    /\ lastOp.marked = lastOp.paths
    /\ lastOp.paths \subseteq disk
    /\ \A p \in lastOp.paths : p \in DOMAIN thumbnails /\ thumbnails[p] = "img"
    /\ ui = "open"
    /\ Len(stagedImages) = 1

\* C12: a stage key press on an unstaged record whose file cannot be read
\* appends nothing to the store, does not mark the path staged and leaves
\* the picker open where it was.
C12_UnreadableNotStaged ==
    [][(/\ Browsing
        /\ lastOp'.key = "s"
        /\ HasCursorRecord
        /\ CursorPath \notin Range(alreadyStaged)
        /\ lastOp'.ok = {}) =>
            /\ stagedImages' = stagedImages
            /\ alreadyStaged' = alreadyStaged
            /\ CursorPath \notin Range(alreadyStaged')
            /\ ui' = "open"
            /\ UNCHANGED <<tabs, activeTab, cursor, scrollOffset, nukeWarning, widget,
                           disk>>]_vars

C12_Witness ==
    /\ lastOp.op = "stage"
    /\ lastOp.paths # {}
    /\ lastOp.ok = {}
    /\ lastOp.paths \subseteq disk
    /\ Len(stagedImages) = 1
    /\ Len(alreadyStaged) = 1
    /\ ui = "open"

\* The choice by priority: config.sources if non-empty, else the directory of
\* PI_SCREENSHOTS_DIR if set, else the platform default directory.
PriorityChoice ==
    IF configSources # <<>> THEN configSources
    ELSE IF envDir # Unset THEN <<envDir>>
    ELSE <<getDefaultScreenshotDir>>

\* C13 as stated: the sources scanned by /ss are exactly the choice by
\* priority, for every combination of settings.
C13_ExactlyPriorityChoice ==
    lastOp.op = "ss" => scannedSources = PriorityChoice

\* C13 amended: the sources scanned by /ss are the choice by priority, in
\* order, followed by sshSync.remoteDir when that is configured and neither
\* it nor its expansion is already among them.
C13_PriorityChoiceThenSyncDir ==
    lastOp.op = "ss" =>
        LET n == Len(PriorityChoice)
            add == /\ sshRemoteDir # Unset
                   /\ sshRemoteDir \notin Range(PriorityChoice)
                   /\ expandPath(sshRemoteDir) \notin Range(PriorityChoice)
        IN /\ Len(scannedSources) = IF add THEN n + 1 ELSE n
           /\ SubSeq(scannedSources, 1, n) = PriorityChoice
           /\ add => scannedSources[n + 1] = sshRemoteDir

\* No config.sources, PI_SCREENSHOTS_DIR set, and a sync directory that is
\* scanned after it.
C13_Witness ==
    /\ lastOp.op = "ss"
    /\ configSources = <<>>
    /\ envDir # Unset
    /\ sshRemoteDir # Unset
    /\ scannedSources = <<envDir, sshRemoteDir>>

\* The names of Names that end in .png in any case and start the way one of
\* the screenshot naming patterns says.
ScreenshotPngNames ==
    { <<"Screenshot", " ", "1", ".png">>,
      <<"SCREENSHOT", "1", ".PNG">>,
      <<"Capture", " ", "1", ".png">>,
      <<"2024-01-30", "_", "12", "-", "30", ".png">>,
      <<"grim", "1", ".png">> }

ScanPaths == {r.path : r \in Range(scanOut.files)}

\* C14 as stated: the scan of a directory returns exactly the entries with a
\* .png, screenshot-style name, and nothing for a directory that does not
\* exist.
C14_ExactlyNamedEntries ==
    scanOut # NoScan =>
        ScanPaths = {p \in Listing(scanOut.loc) : FileName(p) \in ScreenshotPngNames}

\* C14 amended: the scan of a directory returns exactly the entries with a
\* .png, screenshot-style name whose file can be stat'ed, once each, and
\* nothing for a directory that does not exist.
C14_NamedEntriesWithFile ==
    scanOut # NoScan =>
        /\ ScanPaths = {p \in Listing(scanOut.loc) :
                            FileName(p) \in ScreenshotPngNames /\ p \in disk}
        /\ Len(scanOut.files) = Cardinality(ScanPaths)
        /\ scanOut.loc = MissingLoc => scanOut.files = <<>>

\* An upper-case screenshot PNG is kept next to a PNG without a screenshot
\* name and a screenshot-named JPG.
C14_Witness ==
    /\ scanOut.loc = DefaultLoc
    /\ fileNames[1] = <<"SCREENSHOT", "1", ".PNG">>
    /\ fileNames[2] = <<"notes", ".png">>
    /\ fileNames[3] = <<"Screenshot", " ", "1", ".jpg">>
    /\ disk = Paths
    /\ ScanPaths = {1}

C14_WitnessMissing ==
    /\ scanOut.loc = MissingLoc
    /\ scanOut.files = <<>>
    /\ disk = Paths

\* C15: /ss builds one tab per source that yields records, in source order,
\* and none for a source that yields none; when no source yields records the
\* picker does not open, exactly one warning is notified and the store is
\* unchanged.
C15_EmptySourcesNoTab ==
    [][lastOp'.op = "ss" =>
        LET srcs == ResolvedSources(configSources, envDir, sshRemoteDir)
            yields(s) == getScreenshotsFromSource(s, disk) # <<>>
            kept == SelectSeq(srcs, yields)
        IN /\ stagedImages' = stagedImages
           /\ IF kept = <<>>
              THEN /\ ui' = "closed"
                   /\ Len(notes') = 1
                   /\ notes'[1].level = "warning"
              ELSE /\ ui' = "open"
                   /\ Len(tabs') = Len(kept)
                   /\ \A i \in 1..Len(kept) :
                        /\ tabs'[i].pattern = kept[i]
                        /\ tabs'[i].screenshots # <<>>
                        /\ TabPaths(tabs'[i]) =
                              {r.path : r \in Range(getScreenshotsFromSource(kept[i], disk))}
                   /\ notes' = <<>>]_vars

\* Two configured sources, the first without records: one tab, the second's.
C15_Witness ==
    /\ lastOp.op = "ss"
    /\ ui = "open"
    /\ Len(configSources) = 2
    /\ Len(tabs) = 1
    /\ tabs[1].pattern = configSources[2]
    /\ Len(tabs[1].screenshots) = 2
    /\ disk = Paths

\* Every source empty while an image is staged.
C15_WitnessNoneFound ==
    /\ lastOp.op = "ss"
    /\ ui = "closed"
    /\ Len(notes) = 1
    /\ stagedImages # <<>>

\* C16: /ssclear empties the store whatever it held and notifies the number
\* of images it discarded; a send that follows it attaches nothing.
C16_ClearDiscardsAll ==
    [][/\ lastOp'.op = "ssclear" =>
            /\ stagedImages' = <<>>
            /\ Len(notes') = 1
            /\ notes'[1].count = Len(stagedImages)
            /\ notes'[1].kind = IF Len(stagedImages) > 0 THEN "cleared" ELSE "nothing"
       /\ (lastOp.op = "ssclear" /\ lastOp'.op = "send") =>
            /\ hookResult' = [action |-> "continue"]
            /\ stagedImages' = <<>>
      ]_vars

C16_Witness ==
    /\ lastOp.op = "ssclear"
    /\ notes = <<Note("info", "cleared", 2, 0)>>
    /\ stagedImages = <<>>

\* C17: whenever no picker is open (a /ss command, /ssclear or the send hook
\* has finished), the widget shows the store's count, and is absent when the
\* store is empty.
C17_WidgetAgrees ==
    ui = "closed" => widget = Len(stagedImages)

\* The picker closed itself on the deletion of the last record while an
\* image staged in an earlier session is in the store.
C17_Witness ==
    /\ ui = "closed"
    /\ lastOp.op = "delete"
    /\ lastOp.left = 0
    /\ Len(stagedImages) = 1
    /\ widget = 1

\* C18: the script shown by /ss-ssh-sync targets sshSync.host when that is
\* configured (REMOTE_HOST ends with it and SERVICE_NAME is derived from
\* REMOTE_HOST), and the detected user@hostname when it is not.
C18_ConfiguredHostUsed ==
    sync.state = "open" =>
        LET host == IF sshCfg.host # NoHost THEN sshCfg.host ELSE HostName
            target == sync.script.REMOTE_HOST
        IN /\ Len(target) >= Len(host)
           /\ SubSeq(target, Len(target) - Len(host) + 1, Len(target)) = host
           /\ sshCfg.host = NoHost => target = <<User, "@">> \o HostName
           /\ sync.script.SERVICE_NAME = <<"pi-ss-sync-">> \o ReplaceAtAndDot(target)

\* The script always targets the detected user@hostname.
C18_DetectedHostUsed ==
    sync.state = "open" =>
        /\ sync.script.REMOTE_HOST = <<User, "@">> \o HostName
        /\ sync.script.SERVICE_NAME = <<"pi-ss-sync-", User, "-", "devbox", "-", "lan">>

\* C19: while the picker is open and browsing, the active tab has at least
\* one record.
C19_ActiveTabNonEmpty ==
    Browsing => getCurrentScreenshots # <<>>

\* C20: while the picker is open, the cursor is an index of the active tab's
\* record list.
C20_CursorValid ==
    ui = "open" => (0 <= cursor /\ cursor < Len(getCurrentScreenshots))

\* The cursor is an index of the active tab's list whenever that list has
\* records: the cursor is only invalid on a tab without records.
C20_CursorValidOnRecords ==
    (ui = "open" /\ getCurrentScreenshots # <<>>) =>
        (0 <= cursor /\ cursor < Len(getCurrentScreenshots))

\* C21: while the picker is open the cursor lies inside the visible window,
\* scrollOffset <= cursor < scrollOffset + VISIBLE_ITEMS, after every key
\* press, deletes and tab switches included.
C21_CursorInWindow ==
    ui = "open" => (scrollOffset <= cursor /\ cursor < scrollOffset + VISIBLE_ITEMS)

\* The cursor lies inside the visible window whenever the active tab has
\* records: it leaves the window only on a tab without records.
C21_CursorInWindowOnRecords ==
    (ui = "open" /\ getCurrentScreenshots # <<>>) =>
        (scrollOffset <= cursor /\ cursor < scrollOffset + VISIBLE_ITEMS)

\* C22: in a confirmed nuke a record whose file could not be unlinked stays
\* in the tab's list with its staged mark and its store entry unchanged, and
\* a record whose file was deleted is removed from the list and unstaged.
C22_NukeKeepsUndeleted ==
    [][(ui = "open" /\ nukeWarning /\ lastOp'.op = "nuke") =>
            \A p \in lastOp'.paths :
                IF p \in lastOp'.ok
                THEN /\ p \notin disk'
                     /\ ui' = "open" =>
                           /\ p \notin TabPaths(tabs'[activeTab + 1])
                           /\ p \notin Range(alreadyStaged')
                ELSE /\ CountData(p, stagedImages') = CountData(p, stagedImages)
                     /\ ui' = "open" =>
                           /\ p \in TabPaths(tabs'[activeTab + 1])
                           /\ p \in Range(alreadyStaged') <=> p \in Range(alreadyStaged)]_vars

\* What the code does: a confirmed nuke empties the tab's list whether or
\* not the files were deleted; staged marks of undeleted records stay.
C22_NukeClearsList ==
    [][(ui = "open" /\ nukeWarning /\ lastOp'.op = "nuke" /\ ui' = "open") =>
            /\ tabs'[activeTab + 1].screenshots = <<>>
            /\ \A p \in lastOp'.paths \ lastOp'.ok :
                  p \in Range(alreadyStaged') <=> p \in Range(alreadyStaged)]_vars

\* A confirmed nuke in which every unlink succeeds.
NukeAllDeleted ==
    /\ ui = "open" /\ nukeWarning
    /\ lastOp'.op = "nuke"
    /\ lastOp'.ok = lastOp'.paths

\* What such a nuke does to the files, the lists and the picker: the files
\* of the active tab are deleted, its list is emptied, the other tabs keep
\* their records, and the picker shows another tab that has records with
\* cursor and scroll offset 0, or closes if no other tab has records.
NukeListEffect ==
    /\ disk' = disk \ TabPaths(tabs[activeTab + 1])
    /\ IF \A i \in 1..Len(tabs) : i # activeTab + 1 => tabs[i].screenshots = <<>>
       THEN ui' = "closed" /\ result' = "null"
       ELSE /\ ui' = "open"
            /\ ~nukeWarning'
            /\ Len(tabs') = Len(tabs)
            /\ tabs'[activeTab + 1].screenshots = <<>>
            /\ \A i \in 1..Len(tabs) : i # activeTab + 1 => tabs'[i] = tabs[i]
            /\ activeTab' # activeTab
            /\ tabs'[activeTab' + 1].screenshots # <<>>
            /\ cursor' = 0
            /\ scrollOffset' = 0
            /\ Range(alreadyStaged') = Range(alreadyStaged) \ TabPaths(tabs[activeTab + 1])
            /\ IsSubseq(alreadyStaged', alreadyStaged)

\* C23: a confirmed nuke in which every unlink succeeds affects only the
\* active tab: its files are deleted and its list emptied, each of its staged
\* paths is unstaged and exactly its image leaves the store, the other tabs'
\* records and the other staged images stay, in order; then the picker shows
\* another tab that has records, cursor and scroll 0, or closes.
C23_NukeOnlyActiveTab ==
    [][NukeAllDeleted =>
            /\ NukeListEffect
            /\ IsSubseq(stagedImages', stagedImages)
            /\ \A p \in Paths :
                  CountData(p, stagedImages') =
                     IF p \in TabPaths(tabs[activeTab + 1]) \cap Range(alreadyStaged)
                     THEN CountData(p, stagedImages) - 1
                     ELSE CountData(p, stagedImages)]_vars

\* The same without the store's contents: the store loses one image for
\* every staged path of the nuked tab.
C23_NukeOnlyActiveTabLists ==
    [][NukeAllDeleted =>
            /\ NukeListEffect
            /\ IsSubseq(stagedImages', stagedImages)
            /\ Len(stagedImages') = Len(stagedImages)
                  - Cardinality(TabPaths(tabs[activeTab + 1]) \cap Range(alreadyStaged))]_vars

\* C24: once a file has been deleted through the picker (d or a confirmed
\* nuke), no tab's list holds a record for its path; files leave the disk
\* only through the picker, so every record is of a file that exists.
C24_NoRecordOfDeletedFile ==
    ui = "open" => \A i \in 1..Len(tabs) : TabPaths(tabs[i]) \subseteq disk

\* The active tab's list never keeps a record of a file that d or a nuke has
\* just deleted: a record of a deleted file is always in another tab.
C24_ActiveTabDropsDeleted ==
    [][(ui = "open" /\ ui' = "open" /\ lastOp'.op \in {"delete", "nuke"}) =>
            TabPaths(tabs'[activeTab + 1]) \cap lastOp'.ok = {}]_vars

\* C25: every tab's list is ordered by modification time, newest first, when
\* the picker opens and after every key press.
C25_NewestFirst ==
    ui = "open" =>
        \A t \in 1..Len(tabs) :
            \A i \in 1..(Len(tabs[t].screenshots) - 1) :
                tabs[t].screenshots[i].mtime >= tabs[t].screenshots[i + 1].mtime

\* After a successful delete a tab still lists a newer file before an older
\* one that the scan found in the opposite order.
C25_Witness ==
    /\ ui = "open"
    /\ lastOp.op = "delete"
    /\ lastOp.ok # {}
    /\ \E t \in 1..Len(tabs) :
         LET recs == tabs[t].screenshots
         IN /\ Len(recs) >= 2
            /\ recs[1].mtime > recs[2].mtime
            /\ recs[1].path > recs[2].path

\* The active tab after n presses of Ctrl+T from tab a of k tabs.
RECURSIVE CtrlTPresses(_, _, _)
CtrlTPresses(a, k, n) ==
    IF n = 0 THEN a ELSE (CtrlTPresses(a, k, n - 1) + 1) % k

\* C26: with k > 1 tabs a Ctrl+T press in the browsing state moves to the
\* next tab, wrapping from the last to the first, and sets cursor and scroll
\* offset to 0, so that k presses visit every tab once and end on the tab
\* they started from; with one tab it changes nothing; it never changes a
\* tab's records, the staged set, the store or the files.
C26_CtrlTCycles ==
    [][(Browsing /\ lastOp'.key = "ctrl+t") =>
            LET k == Len(tabs)
            IN /\ tabs' = tabs
               /\ stagedImages' = stagedImages
               /\ alreadyStaged' = alreadyStaged
               /\ disk' = disk
               /\ ui' = "open"
               /\ IF k > 1
                  THEN /\ activeTab' = CtrlTPresses(activeTab, k, 1)
                       /\ activeTab' = IF activeTab = k - 1 THEN 0 ELSE activeTab + 1
                       /\ cursor' = 0
                       /\ scrollOffset' = 0
                       /\ {CtrlTPresses(activeTab, k, n) : n \in 1..k} = 0..(k - 1)
                       /\ CtrlTPresses(activeTab, k, k) = activeTab
                  ELSE UNCHANGED pickerVars]_vars

\* Ctrl+T wrapped from the last of three tabs to the first, with images
\* staged.
C26_Witness ==
    /\ ui = "open"
    /\ lastOp.op = "tab"
    /\ Len(tabs) = 3
    /\ activeTab = 0
    /\ Len(stagedImages) > 0

\* Ctrl+T with a single tab left the cursor where it was.
C26_WitnessOneTab ==
    /\ ui = "open"
    /\ lastOp.op = "tab"
    /\ Len(tabs) = 1
    /\ cursor = 1

\* C27 as stated: a source is scanned as a glob exactly when its expanded
\* string contains one of * ? [ ] { } !, and as a plain directory otherwise:
\* the glob scan keeps every matched file with the extension png, jpg, jpeg
\* or webp, whatever its name; the directory scan keeps only PNGs with a
\* screenshot name.  "~/Desktop/ss" is a directory source and
\* "/out/**/thumbnail_*.png" is a glob source.
C27_EveryMatchedKept ==
    /\ ~isGlobPattern(expandPath(Src(TRUE, SsLoc)))
    /\ isGlobPattern(expandPath(Src(FALSE, ThumbLoc)))
    /\ scanOut # NoScan =>
          LET text == LocText(scanOut.loc)
              glob == Range(text) \cap Range(GlobChars) # {}
              listed == Listing(scanOut.loc)
          IN IF glob
             THEN ScanPaths = {p \in listed :
                                 \E ext \in {".png", ".jpg", ".jpeg", ".webp"} :
                                     endsWithLower(FileName(p), ext)}
             ELSE /\ ScanPaths \subseteq {p \in listed : FileName(p) \in ScreenshotPngNames}
                  /\ \A p \in listed :
                        (\E ext \in {".jpg", ".jpeg", ".webp"} : endsWithLower(FileName(p), ext))
                            => p \notin ScanPaths

\* C27 amended: the same, where the glob scan keeps every matched file with
\* one of the four extensions that can be stat'ed, once each, and the
\* directory scan keeps exactly the screenshot-named PNGs that can be
\* stat'ed.
C27_GlobOrDirectory ==
    /\ ~isGlobPattern(expandPath(Src(TRUE, SsLoc)))
    /\ isGlobPattern(expandPath(Src(FALSE, ThumbLoc)))
    /\ scanOut # NoScan =>
          LET text == LocText(scanOut.loc)
              glob == Range(text) \cap Range(GlobChars) # {}
              listed == Listing(scanOut.loc) \cap disk
          IN /\ ScanPaths =
                   IF glob
                   THEN {p \in listed :
                           \E ext \in {".png", ".jpg", ".jpeg", ".webp"} :
                               endsWithLower(FileName(p), ext)}
                   ELSE IF scanOut.loc = MissingLoc THEN {}
                   ELSE {p \in listed : FileName(p) \in ScreenshotPngNames}
             /\ Len(scanOut.files) = Cardinality(ScanPaths)

\* A path that ends with "!" was scanned as a glob: a JPEG, an upper-case
\* WEBP and a PNG are kept whatever their names; the same files under
\* "~/Desktop/ss" give the screenshot-named PNG alone.
C27_Witness ==
    /\ scanOut.loc = 14
    /\ fileNames[1] = <<"photo", ".jpeg">>
    /\ fileNames[2] = <<"photo", ".WEBP">>
    /\ fileNames[3] = <<"thumbnail", "_", "1", ".png">>
    /\ disk = Paths
    /\ ScanPaths = {1, 2, 3}

C27_WitnessDirectory ==
    /\ scanOut.loc = SsLoc
    /\ fileNames[1] = ShotName
    /\ fileNames[2] = <<"notes", ".PNG">>
    /\ fileNames[3] = <<"photo", ".jpeg">>
    /\ disk = Paths
    /\ ScanPaths = {1}

\* The pattern "/out/**/thumbnail_*.png" drops the files that are not images.
C27_WitnessThumb ==
    /\ scanOut.loc = ThumbLoc
    /\ fileNames[1] = <<"thumbnail", "_", "1", ".png">>
    /\ fileNames[2] = <<"anim", ".gif">>
    /\ fileNames[3] = <<"thumbnail", "_", "1", ".png", ".txt">>
    /\ disk = Paths
    /\ ScanPaths = {1}

\* C28: within a picker session the preview of a path is read from disk at
\* most once while a record of it exists, the result being memoised; a file
\* above MAX_THUMB_SIZE is never read and is shown without preview; a load
\* that fails leaves the picker open, with 'no preview' memoised.
C28_PreviewReadOnce ==
    ui = "open" =>
        /\ \A p \in DOMAIN reads :
              /\ reads[p] <= 1
              /\ ~(FileSize(p) > MAX_THUMB_SIZE)
        /\ \A p \in DOMAIN thumbnails :
              FileSize(p) > MAX_THUMB_SIZE => thumbnails[p] = "null"

\* The same where only the records of files that exist are read at most
\* once: a path is read a second time only for a record of a deleted file,
\* and never a third time.
C28_ReadOnceWhileFileExists ==
    ui = "open" =>
        /\ \A p \in DOMAIN reads :
              /\ reads[p] <= IF p \in disk THEN 1 ELSE 2
              /\ ~(FileSize(p) > MAX_THUMB_SIZE)
        /\ \A p \in DOMAIN thumbnails :
              FileSize(p) > MAX_THUMB_SIZE => thumbnails[p] = "null"

\* A successful d removes the cache entry of the deleted record, unless the
\* picker moved to a tab whose record under the cursor is of the same file.
C28_DeleteDropsCacheEntry ==
    [][(Browsing /\ lastOp'.op = "delete" /\ lastOp'.ok # {} /\ ui' = "open") =>
            \A p \in lastOp'.ok :
                p \in DOMAIN thumbnails' =>
                    /\ activeTab' # activeTab
                    /\ getCurrentScreenshots'[cursor' + 1].path = p]_vars

\* C29: the completion callback of the /ss-ssh-sync overlay is invoked
\* exactly once per overlay session, whatever the order of key presses and
\* timer expiries: never while the overlay is open, once when it closes, and
\* not again afterwards.
C29_DoneExactlyOnce ==
    /\ sync.doneCalls <= 1
    /\ sync.state = "open" => sync.doneCalls = 0
    /\ (sync.state = "closed" /\ lastOp.op \in {"overlay", "timer"}) => sync.doneCalls = 1

\* What the code guarantees: the callback is invoked once when the overlay
\* closes and once more for every timer that expires after that; without a
\* successful copy it is invoked exactly once.
C29_DoneOncePlusLateTimers ==
    /\ sync.state = "open" => sync.doneCalls = 0
    /\ (sync.state = "closed" /\ lastOp.op \in {"overlay", "timer"}) => sync.doneCalls >= 1
    /\ sync.doneCalls + sync.timers <= 1 + MaxTimers
    /\ ~sync.copied => sync.doneCalls <= 1

\* C30: while the picker is open the scroll offset never over-scrolls:
\* 0 <= scrollOffset <= max(0, n - VISIBLE_ITEMS) for the n records of the
\* active tab, so the window is full whenever the tab has that many records.
C30_NoOverScroll ==
    ui = "open" =>
        /\ 0 <= scrollOffset
        /\ scrollOffset <= Max(0, Len(getCurrentScreenshots) - VISIBLE_ITEMS)
        /\ Len(getCurrentScreenshots) >= VISIBLE_ITEMS =>
              scrollOffset + VISIBLE_ITEMS <= Len(getCurrentScreenshots)

\* A successful delete on the last screen of a scrolled list pulled the
\* window back by one.
C30_Witness ==
    /\ ui = "open"
    /\ lastOp.op = "delete"
    /\ lastOp.ok # {}
    /\ Len(getCurrentScreenshots) = ScrollFiles - 1
    /\ scrollOffset = ScrollFiles - 1 - VISIBLE_ITEMS
    /\ cursor = Len(getCurrentScreenshots) - 1

\* The list is scrolled as far as it goes.
C30_WitnessScrolled ==
    /\ ui = "open"
    /\ lastOp.op = "down"
    /\ scrollOffset > 0
    /\ scrollOffset = Len(getCurrentScreenshots) - VISIBLE_ITEMS

TypeOK ==
    /\ ui \in {"closed", "open"}
    /\ DOMAIN thumbnails \subseteq Paths \cup ManyPaths
    /\ DOMAIN reads \subseteq Paths \cup ManyPaths
    /\ \A p \in DOMAIN reads : reads[p] \in 1..2
    /\ \A p \in DOMAIN thumbnails : thumbnails[p] \in {"img", "null"}
    /\ sync.state \in {"closed", "open"}
    /\ sync.scrollOffset \in 0..Max(0, SCRIPT_LINES - VISIBLE_LINES)
    /\ sync.timers \in 0..MaxTimers
    /\ createdDirs \subseteq {MissingLoc}
    /\ disk \subseteq Paths \cup ManyPaths
    /\ Len(stagedImages) <= MaxStaged
    /\ widget \in 0..MaxStaged
    /\ nukeWarning \in BOOLEAN
    /\ Range(alreadyStaged) \subseteq Paths \cup ManyPaths

====
